---- MODULE Spec2Model ----
(***************************************************************************)
(* Resume Ranking and Scoring API (src/main.py and its router split in     *)
(* src/endpoints, src/utils): the criteria store, the extract_criteria and *)
(* score_resumes handlers and the text extractors.                         *)
(*                                                                         *)
(* A text (file name, candidate name, JSON string) is a sequence of        *)
(* lexemes; " " is the whitespace lexeme, "." and "/" are the characters   *)
(* os.path.splitext looks at.  A dictionary key (a criterion, "Candidate   *)
(* Name", "Total Score") is a string.  A number is kept exactly: an "int"  *)
(* carries its value in n, a "float" carries twice its value in n.         *)
(***************************************************************************)
EXTENDS Integers, Sequences, FiniteSets, TLC

VARIABLES stored_criteria, extract_reply, extract_response,
          pc, files, criteria_list, results, io, score_reply, score_response, temp_file

vars == <<stored_criteria, extract_reply, extract_response,
          pc, files, criteria_list, results, io, score_reply, score_response, temp_file>>

(***************************************************************************)
(* Bounds of the model.                                                    *)
(***************************************************************************)
MaxCriteria == 1
MaxFiles == 2
MaxResumeCriteria == 2

(***************************************************************************)
(* JSON values, as json.loads builds them.                                 *)
(***************************************************************************)
JInt(n) == [t |-> "int", n |-> n]
JFloat(twice) == [t |-> "float", n |-> twice]
JBool(b) == [t |-> "bool", n |-> IF b THEN 1 ELSE 0]
JStr(s) == [t |-> "str", s |-> s]
JNull == [t |-> "null"]
JArray(a) == [t |-> "array", a |-> a]
JObject(o) == [t |-> "object", o |-> o]

CandidateName == "Candidate Name"
TotalScore == "Total Score"

(***************************************************************************)
(* str.strip(): leading and trailing whitespace removed.                   *)
(***************************************************************************)
RECURSIVE LStrip(_)
LStrip(s) == IF s # <<>> /\ Head(s) = " " THEN LStrip(Tail(s)) ELSE s

RECURSIVE RStrip(_)
RStrip(s) ==
    IF s # <<>> /\ s[Len(s)] = " " THEN RStrip(SubSeq(s, 1, Len(s) - 1)) ELSE s

Strip(s) == RStrip(LStrip(s))

(***************************************************************************)
(* os.path.splitext(p)[0]: the extension is what follows the last dot of   *)
(* the last path component, unless only dots precede it there.             *)
(***************************************************************************)
RFind(p, c) ==
    IF \E k \in 1..Len(p) : p[k] = c
    THEN CHOOSE k \in 1..Len(p) : p[k] = c /\ \A j \in (k + 1)..Len(p) : p[j] # c
    ELSE 0

SplitextRoot(p) ==
    LET sepIndex == RFind(p, "/")
        dotIndex == RFind(p, ".")
    IN  IF dotIndex > sepIndex
           /\ \E k \in (sepIndex + 1)..(dotIndex - 1) : p[k] # "."
        THEN SubSeq(p, 1, dotIndex - 1)
        ELSE p

(***************************************************************************)
(* The model's reply: message.content as a sequence of tokens.  A token is *)
(* a code fence, the language tag "json", whitespace, a complete JSON      *)
(* value, or other text.                                                   *)
(***************************************************************************)
Fence == [k |-> "fence"]
JsonTag == [k |-> "json"]
Ws == [k |-> "ws"]
Prose == [k |-> "prose"]
Val(v) == [k |-> "value", v |-> v]

RECURSIVE LStripWs(_)
LStripWs(s) == IF s # <<>> /\ Head(s) = Ws THEN LStripWs(Tail(s)) ELSE s

RECURSIVE RStripWs(_)
RStripWs(s) ==
    IF s # <<>> /\ s[Len(s)] = Ws THEN RStripWs(SubSeq(s, 1, Len(s) - 1)) ELSE s

\* re.sub(r'^```(?:json)?', '', s)
StripOpenFence(s) ==
    IF s # <<>> /\ Head(s) = Fence
    THEN IF Len(s) >= 2 /\ s[2] = JsonTag THEN Tail(Tail(s)) ELSE Tail(s)
    ELSE s

\* re.sub(r'```$', '', s)
StripCloseFence(s) ==
    IF s # <<>> /\ s[Len(s)] = Fence THEN SubSeq(s, 1, Len(s) - 1) ELSE s

StripFences(content) == StripCloseFence(StripOpenFence(RStripWs(LStripWs(content))))

\* json.loads(s): one value, whitespace allowed around it; anything else raises.
JsonLoads(s) ==
    LET body == RStripWs(LStripWs(s))
    IN  IF Len(body) = 1 /\ body[1].k = "value"
        THEN [ok |-> TRUE, value |-> body[1].v]
        ELSE [ok |-> FALSE, value |-> JNull]

ParseReply(content) == JsonLoads(StripFences(content))

(***************************************************************************)
(* Text extraction (extract_text_from_pdf, extract_text_from_docx).  A     *)
(* file's body is "text" (the parser finds text), "empty" (the parser runs *)
(* and finds none) or "corrupt" (the parser raises).  temp is whether      *)
(* temp_uploaded.docx exists.                                              *)
(***************************************************************************)
PdfType == "application/pdf"
DocxType == "application/vnd.openxmlformats-officedocument.wordprocessingml.document"
MswordType == "application/msword"

Raised(status, detail, temp) ==
    [ok |-> FALSE, status |-> status, detail |-> detail, read |-> TRUE, temp |-> temp]

extract_text_from_pdf(file, temp) ==
    IF file.body = "text"
    THEN [ok |-> TRUE, status |-> 200, detail |-> "", read |-> TRUE, temp |-> temp]
    ELSE Raised(500, "Failed to extract text from PDF", temp)

\* open(temp_file_path, "wb") creates the file; os.remove runs only when
\* docx.Document returned.
extract_text_from_docx(file, temp) ==
    IF file.body = "corrupt"
    THEN Raised(500, "Failed to extract text from DOCX", TRUE)
    ELSE IF file.body = "empty"
         THEN Raised(500, "Failed to extract text from DOCX", FALSE)
         ELSE [ok |-> TRUE, status |-> 200, detail |-> "", read |-> TRUE, temp |-> FALSE]

\* The content-type dispatch both handlers start with.
ExtractText(file, temp) ==
    IF file.content_type = PdfType
    THEN extract_text_from_pdf(file, temp)
    ELSE IF file.content_type \in {DocxType, MswordType}
         THEN extract_text_from_docx(file, temp)
         ELSE [ok |-> FALSE, status |-> 400, detail |-> "Unsupported file type",
               read |-> FALSE, temp |-> temp]

(***************************************************************************)
(* The repair pass of score_resumes on the parsed reply score_data.  Each  *)
(* operator returns ok = FALSE where the Python statement raises.          *)
(***************************************************************************)
\* `crit in score_data` for a dict, a list and a str; other types raise.
Contains(sd, crit) ==
    CASE sd.t = "object" -> crit \in DOMAIN sd.o
      [] sd.t = "array" -> \E j \in 1..Len(sd.a) : sd.a[j] = crit
      [] sd.t = "str" -> \E j \in 1..Len(sd.s) : sd.s[j] = crit
      [] OTHER -> FALSE

\* for crit in criteria_list: if crit not in score_data: score_data[crit] = 0
ZeroFill(sd, criteria) ==
    LET missing == {criteria[j] : j \in 1..Len(criteria)} \ 
                     {c \in {criteria[j] : j \in 1..Len(criteria)} : Contains(sd, c)}
    IN  CASE sd.t = "object" ->
               [ok |-> TRUE,
                sd |-> JObject([c \in DOMAIN sd.o \cup missing |->
                                  IF c \in DOMAIN sd.o THEN sd.o[c] ELSE JInt(0)])]
          [] sd.t \in {"array", "str"} ->
               [ok |-> criteria = <<>> \/ missing = {}, sd |-> sd]
          [] OTHER -> [ok |-> criteria = <<>>, sd |-> sd]

\* if "Candidate Name" not in score_data or not score_data["Candidate Name"].strip():
\*     score_data["Candidate Name"] = os.path.splitext(resume.filename)[0]
FixCandidateName(sd, filename) ==
    IF sd.t # "object"
    THEN [ok |-> FALSE, sd |-> sd]
    ELSE IF CandidateName \notin DOMAIN sd.o
         THEN [ok |-> TRUE,
               sd |-> JObject([c \in DOMAIN sd.o \cup {CandidateName} |->
                                 IF c = CandidateName THEN JStr(SplitextRoot(filename))
                                 ELSE sd.o[c]])]
         ELSE IF sd.o[CandidateName].t # "str"
              THEN [ok |-> FALSE, sd |-> sd]
              ELSE IF Strip(sd.o[CandidateName].s) = <<>>
                   THEN [ok |-> TRUE,
                         sd |-> JObject([sd.o EXCEPT
                                   ![CandidateName] = JStr(SplitextRoot(filename))])]
                   ELSE [ok |-> TRUE, sd |-> sd]

IsNumber(v) == v.t \in {"int", "bool", "float"}

\* Twice the value of a number.
Twice(v) == IF v.t = "float" THEN v.n ELSE 2 * v.n

RECURSIVE SumTwice(_)
SumTwice(vs) == IF vs = <<>> THEN 0 ELSE Twice(Head(vs)) + SumTwice(Tail(vs))

\* sum(score_data.get(crit, 0) for crit in criteria_list): int + float is a
\* float, a str or None operand raises TypeError.
ComputedTotal(sd, criteria) ==
    LET got == [j \in 1..Len(criteria) |->
                  IF criteria[j] \in DOMAIN sd.o THEN sd.o[criteria[j]] ELSE JInt(0)]
    IN  IF \E j \in 1..Len(criteria) : ~IsNumber(got[j])
        THEN [ok |-> FALSE, total |-> JInt(0)]
        ELSE IF \E j \in 1..Len(criteria) : got[j].t = "float"
             THEN [ok |-> TRUE, total |-> JFloat(SumTwice(got))]
             ELSE [ok |-> TRUE, total |-> JInt(SumTwice(got) \div 2)]

\* score_data["Total Score"] = computed_total
SetTotal(sd, total) ==
    JObject([c \in DOMAIN sd.o \cup {TotalScore} |->
               IF c = TotalScore THEN total ELSE sd.o[c]])

\* The try block from json.loads to results.append: the repaired record.
RepairScoreData(content, criteria, filename) ==
    LET parsed == ParseReply(content)
        filled == ZeroFill(parsed.value, criteria)
        named == FixCandidateName(filled.sd, filename)
        total == ComputedTotal(named.sd, criteria)
    IN  IF ~parsed.ok \/ ~filled.ok \/ ~named.ok \/ ~total.ok
        THEN [ok |-> FALSE, score_data |-> JNull]
        ELSE [ok |-> TRUE, score_data |-> SetTotal(named.sd, total.total)]

\* columns = ["Candidate Name"] + criteria_list + ["Total Score"]
Columns(criteria) == <<CandidateName>> \o criteria \o <<TotalScore>>

\* The cell of a column the record has no key for.
NaN == [t |-> "nan"]

\* pd.DataFrame(results, columns=columns).to_csv(index=False)
ToCsv(rs, criteria) ==
    [header |-> Columns(criteria),
     rows |-> [j \in 1..Len(rs) |->
                 [resume |-> rs[j].resume,
                  cells |-> [c \in 1..Len(Columns(criteria)) |->
                               IF Columns(criteria)[c] \in DOMAIN rs[j].score_data.o
                               THEN rs[j].score_data.o[Columns(criteria)[c]]
                               ELSE NaN]]]]

(***************************************************************************)
(* State.  stored_criteria is the module global (None at import).  One     *)
(* score_resumes request is in flight at a time: pc = "loop" between two   *)
(* resumes of its for loop; files, criteria_list and results are its       *)
(* locals, gone when it responds.  io lists the file reads and LLM calls   *)
(* of the latest score_resumes request, score_reply is the model reply to  *)
(* its latest prompt and score_response its response.  extract_reply and   *)
(* extract_response are the model reply and the response of the latest     *)
(* extract_criteria request.  temp_file: temp_uploaded.docx exists.        *)
(***************************************************************************)
NoResponse == [status |-> 0]
NoCall == [called |-> FALSE]
Reply(content) == [called |-> TRUE, ok |-> TRUE, content |-> content]
LlmError == [called |-> TRUE, ok |-> FALSE]

Unset == [none |-> TRUE, list |-> <<>>]

Init ==
    /\ stored_criteria = Unset
    /\ extract_reply = NoCall
    /\ extract_response = NoResponse
    /\ pc = "idle"
    /\ files = <<>>
    /\ criteria_list = <<>>
    /\ results = <<>>
    /\ io = <<>>
    /\ score_reply = NoCall
    /\ score_response = NoResponse
    /\ temp_file = FALSE

\* Mutant: the new criteria are added to the stored ones.
StoreCriteria_Merge(old, criteria) ==
    [none |-> FALSE,
     list |-> old.list \o SelectSeq(criteria,
                                    LAMBDA c : \A j \in 1..Len(old.list) : old.list[j] # c)]

\* state.stored_criteria = criteria
StoreCriteria(old, criteria) == [none |-> FALSE, list |-> criteria]

\* if not isinstance(criteria, list): raise ValueError
IsList(value) == value.t = "array"

\* Mutant: the store is emptied before the reply is validated.
StoredOnError_Cleared(old) == [none |-> FALSE, list |-> <<>>]

\* The global after a request that raised: the assignment was not reached.
StoredOnError(old) == old

(***************************************************************************)
(* POST /extract-criteria, from the upload to the response.  llm is the    *)
(* outcome of the completion call (NoCall when the text extraction raised  *)
(* before it).                                                             *)
(***************************************************************************)
extract_criteria(file, llm) ==
    LET text == ExtractText(file, temp_file)
        parsed == ParseReply(llm.content)
    IN  /\ llm.called = text.ok
        /\ temp_file' = text.temp
        /\ extract_reply' = llm
        /\ UNCHANGED <<pc, files, criteria_list, results, io, score_reply, score_response>>
        /\ IF ~text.ok
           THEN /\ extract_response' = [status |-> text.status, detail |-> text.detail]
                /\ stored_criteria' = StoredOnError(stored_criteria)
           ELSE IF llm.ok /\ parsed.ok /\ IsList(parsed.value)
                THEN /\ stored_criteria' = StoreCriteria(stored_criteria, parsed.value.a)
                     /\ extract_response' = [status |-> 200, criteria |-> parsed.value.a]
                ELSE /\ extract_response' = [status |-> 500, detail |-> "Error processing file"]
                     /\ stored_criteria' = StoredOnError(stored_criteria)

(***************************************************************************)
(* POST /score-resumes.                                                    *)
(***************************************************************************)
\* Mutant: `if stored_criteria is None`.
NoStoredCriteria_IsNone(stored) == stored.none

\* if not stored_criteria
NoStoredCriteria(stored) == stored.none \/ stored.list = <<>>

\* Mutant: the global is read again at each use.
CriteriaInUse_Reread == stored_criteria.list

\* The list the prompt, the repair pass and the CSV columns read.
CriteriaInUse == criteria_list

\* Mutant: results.insert(0, score_data).
AppendResult_Prepend(rs, entry) == <<entry>> \o rs

\* results.append(score_data)
AppendResult(rs, entry) == Append(rs, entry)

\* The request up to the for loop.
score_resumes_start(fs) ==
    /\ pc = "idle"
    /\ io' = <<>>
    /\ score_reply' = NoCall
    /\ results' = <<>>
    /\ UNCHANGED <<stored_criteria, extract_reply, extract_response, temp_file>>
    /\ IF NoStoredCriteria(stored_criteria)
       THEN /\ score_response' = [status |-> 400, detail |-> "No stored criteria available",
                                  resume |-> 0]
            /\ files' = <<>>
            /\ criteria_list' = <<>>
            /\ pc' = "idle"
       ELSE /\ score_response' = NoResponse
            /\ files' = fs
            /\ criteria_list' = stored_criteria.list
            /\ pc' = "loop"

\* The response an exception raised at resume i ends the request with.
Abort(status, detail, i) ==
    /\ score_response' = [status |-> status, detail |-> detail, resume |-> i]
    /\ files' = <<>>
    /\ criteria_list' = <<>>
    /\ results' = <<>>
    /\ pc' = "idle"

\* One iteration of `for resume in files`.
score_resumes_resume(llm) ==
    LET i == Len(results) + 1
        resume == files[i]
        text == ExtractText(resume, temp_file)
        repaired == RepairScoreData(llm.content, CriteriaInUse, resume.filename)
        read == IF text.read THEN <<[op |-> "read", resume |-> i]>> ELSE <<>>
    IN  /\ pc = "loop"
        /\ Len(results) < Len(files)
        /\ llm.called = text.ok
        /\ temp_file' = text.temp
        /\ score_reply' = llm
        /\ UNCHANGED <<stored_criteria, extract_reply, extract_response>>
        /\ IF ~text.ok
           THEN /\ io' = io \o read
                /\ Abort(text.status, text.detail, i)
           ELSE /\ io' = io \o read \o
                           <<[op |-> "llm", resume |-> i, criteria |-> CriteriaInUse]>>
                /\ IF llm.ok /\ repaired.ok
                   THEN /\ results' = AppendResult(results,
                                         [resume |-> i, score_data |-> repaired.score_data])
                        /\ UNCHANGED <<score_response, pc, files, criteria_list>>
                   ELSE Abort(500, "Error processing resume", i)

\* After the loop: the DataFrame, the CSV, the response.
score_resumes_finish ==
    /\ pc = "loop"
    /\ Len(results) = Len(files)
    /\ score_response' = [status |-> 200, csv |-> ToCsv(results, CriteriaInUse)]
    /\ files' = <<>>
    /\ criteria_list' = <<>>
    /\ results' = <<>>
    /\ pc' = "idle"
    /\ UNCHANGED <<stored_criteria, extract_reply, extract_response, io, score_reply,
                   temp_file>>

(***************************************************************************)
(* Inputs: uploaded files and model replies.                               *)
(***************************************************************************)
File(filename, content_type, body) ==
    [filename |-> filename, content_type |-> content_type, body |-> body]

JaneDoePdf == File(<<"jane_doe", ".", "pdf">>, PdfType, "text")
ScanPdf == File(<<"scan", ".", "pdf">>, PdfType, "empty")
NotesTxt == File(<<"notes", ".", "txt">>, "text/plain", "text")
ResumeDocx == File(<<"resume", ".", "docx">>, DocxType, "text")
EmptyDocx == File(<<"empty", ".", "docx">>, DocxType, "empty")
BrokenDoc == File(<<"broken", ".", "doc">>, MswordType, "corrupt")
BrokenPdf == File(<<"cv", ".", "final", ".", "pdf">>, PdfType, "corrupt")
DotFile == File(<<".", "resume">>, PdfType, "text")
PathFile == File(<<"cv", ".", "d", "/", "jane">>, PdfType, "text")

SeqsUpTo(S, n) == UNION {[1..k -> S] : k \in 0..n}

Bare(v) == <<Val(v)>>
Fenced(v) == <<Ws, Fence, JsonTag, Ws, Val(v), Ws, Fence, Ws>>

\* Contents that are not one JSON value.
TrailingProse == <<Val(JArray(<<"Python">>)), Prose>>
Unbalanced == <<Prose>>

Scalars == {JInt(7), JBool(TRUE), JNull, JStr(<<"Python", " ", "SQL", " ", CandidateName>>)}

SomeObject ==
    JObject([c \in {CandidateName, "Python", "SQL", TotalScore} |->
               CASE c = CandidateName -> JStr(<<"Jane">>)
                 [] c = "Python" -> JInt(4)
                 [] c = "SQL" -> JInt(3)
                 [] OTHER -> JInt(99)])

PartialObject ==
    JObject([c \in {CandidateName, "Python"} |->
               IF c = CandidateName THEN JStr(<<>>) ELSE JInt(4)])

(***************************************************************************)
(* The service: extract_criteria and score_resumes requests in any order,  *)
(* extract_criteria requests also between two resumes of a score_resumes   *)
(* request.                                                                *)
(***************************************************************************)
Files == {JaneDoePdf, ScanPdf, NotesTxt}
FileLists == SeqsUpTo(Files, MaxFiles) \ {<<>>}

Criteria == {"Python", "SQL"}
CriteriaLists == SeqsUpTo(Criteria, MaxCriteria)

ExtractReplies ==
    {Reply(Bare(JArray(l))) : l \in CriteriaLists}
      \cup {Reply(Fenced(JArray(l))) : l \in CriteriaLists}
      \cup {Reply(Bare(v)) : v \in Scalars \cup {SomeObject}}
      \cup {Reply(TrailingProse), LlmError, NoCall}

ScoreReplies ==
    {Reply(Bare(SomeObject)), Reply(Bare(PartialObject)), Reply(Fenced(PartialObject))}
      \cup {Reply(Bare(v)) : v \in Scalars}
      \cup {Reply(Bare(JArray(<<"Python", "SQL", CandidateName>>)))}
      \cup {Reply(TrailingProse), LlmError, NoCall}

Next ==
    \/ \E file \in Files, llm \in ExtractReplies : extract_criteria(file, llm)
    \/ \E fs \in FileLists : score_resumes_start(fs)
    \/ \E llm \in ScoreReplies : score_resumes_resume(llm)
    \/ score_resumes_finish

Spec == Init /\ [][Next]_vars

(***************************************************************************)
(* One resume: score_resumes requests of a single file against a store    *)
(* that holds any non-empty list, over every shape of file and of reply.   *)
(***************************************************************************)
ResumeFiles ==
    {JaneDoePdf, ScanPdf, NotesTxt, ResumeDocx, EmptyDocx, BrokenDoc, BrokenPdf, DotFile,
     PathFile}

ResumeCriteria == {"Python", "SQL", TotalScore, CandidateName}
ResumeCriteriaLists == SeqsUpTo(ResumeCriteria, MaxResumeCriteria) \ {<<>>}

Absent == [t |-> "absent"]

NameValues == {Absent, JStr(<<>>), JStr(<<" ">>), JStr(<<" ", "Jane", " ">>), JNull}
PythonValues == {Absent, JInt(4), JInt(9), JFloat(5), JStr(<<"high">>)}
SqlValues == {Absent, JInt(0), JBool(TRUE)}
TotalValues == {Absent, JInt(3), JInt(99)}

\* The object with the given values, absent keys left out.
ObjectOf(name, python, sql, total) ==
    LET all == [c \in ResumeCriteria |->
                  CASE c = CandidateName -> name
                    [] c = "Python" -> python
                    [] c = "SQL" -> sql
                    [] OTHER -> total]
    IN  JObject([c \in {k \in ResumeCriteria : all[k] # Absent} |-> all[c]])

Objects ==
    {ObjectOf(name, python, sql, total) :
        name \in NameValues, python \in PythonValues, sql \in SqlValues,
        total \in TotalValues}

ResumeReplies ==
    {Reply(Bare(o)) : o \in Objects}
      \cup ScoreReplies
      \cup {Reply(Bare(JArray(<<"Python">>))), Reply(Bare(JStr(<<>>))), Reply(Unbalanced),
            Reply(<<Fence, Val(PartialObject)>>), Reply(<<Fence, Ws, JsonTag, Val(SomeObject)>>)}

InitResume ==
    /\ stored_criteria \in {[none |-> FALSE, list |-> l] : l \in ResumeCriteriaLists}
    /\ extract_reply = NoCall
    /\ extract_response = NoResponse
    /\ pc = "idle"
    /\ files = <<>>
    /\ criteria_list = <<>>
    /\ results = <<>>
    /\ io = <<>>
    /\ score_reply = NoCall
    /\ score_response = NoResponse
    /\ temp_file = FALSE

NextResume ==
    \/ \E file \in ResumeFiles : score_resumes_start(<<file>>)
    \/ \E llm \in ResumeReplies : score_resumes_resume(llm)
    \/ score_resumes_finish

SpecResume == InitResume /\ [][NextResume]_vars

(***************************************************************************)
(* Properties.                                                             *)
(***************************************************************************)
\* The reply is text that, fences stripped, is JSON of type t.
HasShape(llm, t) ==
    llm.called /\ llm.ok /\ ParseReply(llm.content).ok
      /\ ParseReply(llm.content).value.t = t

\* The reply is text that is not JSON of type t.
WrongShape(llm, t) == llm.called /\ llm.ok /\ ~HasShape(llm, t)

\* The JSON value the reply text carries.
Carried(llm) == llm.content[CHOOSE j \in 1..Len(llm.content) : llm.content[j].k = "value"].v

LlmCalls == {j \in 1..Len(io) : io[j].op = "llm"}

\* The record built from the latest reply, when it was appended.
Appended == pc = "loop" /\ results # <<>> /\ score_reply.called
LastRecord == results[Len(results)].score_data.o

\* The per-criterion values of record o.
Scores(o, criteria) == [j \in 1..Len(criteria) |-> o[criteria[j]]]

\* A step of a score_resumes request.
ScoreStep ==
    <<pc, files, criteria_list, results, io, score_reply, score_response>>'
      # <<pc, files, criteria_list, results, io, score_reply, score_response>>

\* C1: in every appended record, Total Score is the sum over the stored
\* criteria of the record's per-criterion values, whatever the reply held,
\* repeated criteria and a criterion named Total Score included.
C1_TotalIsSumOfRecord ==
    Appended =>
        /\ \A j \in 1..Len(criteria_list) : IsNumber(LastRecord[criteria_list[j]])
        /\ Twice(LastRecord[TotalScore]) = SumTwice(Scores(LastRecord, criteria_list))

\* The file name without its extension, file by file.
Stem(filename) ==
    CASE filename = JaneDoePdf.filename -> <<"jane_doe">>
      [] filename = ResumeDocx.filename -> <<"resume">>
      [] filename = DotFile.filename -> <<".", "resume">>
      [] filename = PathFile.filename -> <<"cv", ".", "d", "/", "jane">>
      [] OTHER -> <<>>

\* The criteria the latest prompt listed.
Prompted == io[Len(io)].criteria

\* C2: every reply that is a JSON object (here: one whose scores are all
\* numbers, Candidate Name not being a stored criterion) yields a record;
\* its Candidate Name is the file name without extension when the reply has
\* no name or a blank one, and the reply's name otherwise.
C2_NameRepaired ==
    (/\ HasShape(score_reply, "object")
     /\ \A c \in DOMAIN Carried(score_reply).o \ {CandidateName} :
            IsNumber(Carried(score_reply).o[c])
     /\ \A j \in 1..Len(Prompted) : Prompted[j] # CandidateName)
    => /\ score_response.status \in {0, 200}
       /\ Appended =>
            LET reply == Carried(score_reply).o
            IN  IF \/ CandidateName \notin DOMAIN reply
                   \/ reply[CandidateName] \in {JStr(<<>>), JStr(<<" ">>)}
                THEN LastRecord[CandidateName] = JStr(Stem(files[Len(results)].filename))
                ELSE LastRecord[CandidateName] = reply[CandidateName]

\* C7: the record of a reply holds 0 for every stored criterion the reply
\* has no key for and the reply's value for every stored criterion it has a
\* key for.
C7_ZeroFillKeepsReply ==
    Appended =>
        \A j \in 1..Len(criteria_list) :
            LET c == criteria_list[j]
                reply == Carried(score_reply).o
            IN  /\ c \in DOMAIN LastRecord
                /\ LastRecord[c] = IF c \in DOMAIN reply THEN reply[c] ELSE JInt(0)

\* C8: in every appended record each stored criterion is an integer in 0..5
\* and Total Score an integer in 0..5 * (number of stored criteria); stated
\* for criteria lists that name neither Total Score nor Candidate Name.
C8_ScoresInRange ==
    (Appended /\ \A j \in 1..Len(criteria_list) : criteria_list[j] \in Criteria) =>
        /\ \A j \in 1..Len(criteria_list) :
              /\ LastRecord[criteria_list[j]].t = "int"
              /\ LastRecord[criteria_list[j]].n \in 0..5
        /\ LastRecord[TotalScore].t = "int"
        /\ LastRecord[TotalScore].n \in 0..(5 * Len(criteria_list))

\* C9: temp_uploaded.docx does not exist when a request has responded.
C9_TempFileRemoved == (pc = "idle" /\ score_response.status # 0) => ~temp_file

IsError(response) == response.status \in {400, 500}

\* C3: a score_resumes request that starts while the store is unset or holds
\* the empty list answers 400 "No stored criteria available" at once: no
\* file is read, no LLM call made, the temporary file untouched.
C3_NoCriteriaFailsFast ==
    [][(pc = "idle" /\ ScoreStep
          /\ (stored_criteria.none \/ Len(stored_criteria.list) = 0))
       => /\ pc' = "idle"
          /\ score_response' = [status |-> 400, detail |-> "No stored criteria available",
                                resume |-> 0]
          /\ io' = <<>>
          /\ score_reply' = NoCall
          /\ temp_file' = temp_file]_vars

C3_Witness ==
    /\ stored_criteria = [none |-> FALSE, list |-> <<>>]
    /\ score_response.status = 400
    /\ score_response.resume = 0
    /\ io = <<>>

\* C4: a request either answers 200 with one row per uploaded file, row j
\* built from file j, or answers the error of the first file that failed,
\* without CSV, and has read and prompted for no file after that one: the
\* files before it each once, in upload order.
C4_AllOrNothingInOrder ==
    /\ [](pc = "loop" =>
            /\ score_response.status = 0
            /\ \A j \in 1..Len(results) : results[j].resume = j
            /\ \A j \in 1..Len(io) : io[j].resume <= Len(results))
    /\ [](pc = "idle" /\ IsError(score_response) =>
            /\ DOMAIN score_response = {"status", "detail", "resume"}
            /\ \A j \in 1..Len(io) : io[j].resume <= score_response.resume
            /\ \A j, k \in 1..Len(io) : j < k => io[j].resume <= io[k].resume
            /\ \A r \in 1..(score_response.resume - 1) :
                  Cardinality({j \in LlmCalls : io[j].resume = r}) = 1)
    /\ [][(pc = "loop" /\ ScoreStep)
          => \/ /\ pc' = "loop"
                /\ Len(results') = Len(results) + 1
                /\ SubSeq(results', 1, Len(results)) = results
                /\ files' = files
             \/ /\ pc' = "idle"
                /\ IsError(score_response')
                /\ score_response'.resume = Len(results) + 1
                /\ Len(results) < Len(files)
             \/ /\ pc' = "idle"
                /\ score_response'.status = 200
                /\ Len(score_response'.csv.rows) = Len(files)
                /\ \A j \in 1..Len(files) :
                      /\ score_response'.csv.rows[j].resume = j
                      /\ score_response'.csv.rows[j] = ToCsv(results, criteria_list).rows[j]
                /\ Len(results) = Len(files)]_vars

C4_Witness ==
    /\ pc = "idle"
    /\ score_response.status = 500
    /\ score_response.resume = 2
    /\ \E j \in LlmCalls : io[j].resume = 1
    /\ \E j \in 1..Len(io) : io[j].resume = 2

\* C5: after a successful extract_criteria the store holds exactly the list
\* the reply carried, which is also the list returned under "criteria",
\* whatever the store held before; nothing else writes the store.
C5_LastWriteWins ==
    /\ [](extract_response.status = 200 =>
            /\ HasShape(extract_reply, "array")
            /\ stored_criteria = [none |-> FALSE, list |-> Carried(extract_reply).a]
            /\ extract_response.criteria = stored_criteria.list)
    /\ [][stored_criteria' # stored_criteria => extract_response'.status = 200]_vars

\* The store held <<"Python">> when the request in flight started and holds
\* <<"SQL">> now.
C5_Witness ==
    /\ pc = "loop"
    /\ criteria_list = <<"Python">>
    /\ extract_response.status = 200
    /\ stored_criteria.list = <<"SQL">>

\* C6: a reply that is not JSON of the expected type ends the request with
\* 500: extract_criteria leaves the store as it was, score_resumes appends
\* no record and returns no CSV.
C6_WrongShapeNoEffect ==
    /\ [](WrongShape(extract_reply, "array") => extract_response.status = 500)
    /\ [][WrongShape(extract_reply', "array") => stored_criteria' = stored_criteria]_vars
    /\ [](WrongShape(score_reply, "object") =>
            /\ pc = "idle"
            /\ results = <<>>
            /\ score_response.status = 500
            /\ "csv" \notin DOMAIN score_response)

C6_Witness ==
    /\ extract_reply = Reply(Bare(SomeObject))
    /\ extract_response.status = 500
    /\ stored_criteria = [none |-> FALSE, list |-> <<"Python">>]
    /\ score_reply = Reply(Bare(JArray(<<"Python", "SQL", CandidateName>>)))
    /\ score_response.status = 500

\* C10: a score_resumes request works on the list the store held when it
\* started: every prompt lists it, every record has its keys and its sum,
\* and the CSV header is built from it, whatever extract_criteria stores
\* meanwhile.
C10_OneSnapshot ==
    /\ [][(pc = "idle" /\ pc' = "loop") => criteria_list' = stored_criteria.list]_vars
    /\ [][(pc = "loop" /\ pc' = "loop") => criteria_list' = criteria_list]_vars
    /\ [](pc = "loop" =>
            /\ \A j \in LlmCalls : io[j].criteria = criteria_list
            /\ \A j \in 1..Len(results) :
                  LET o == results[j].score_data.o
                  IN  /\ \A c \in 1..Len(criteria_list) : criteria_list[c] \in DOMAIN o
                      /\ Twice(o[TotalScore]) = SumTwice(Scores(o, criteria_list)))
    /\ [][(pc = "loop" /\ score_response'.status = 200) =>
            /\ score_response'.csv.header = <<CandidateName>> \o criteria_list \o <<TotalScore>>
            /\ \A j \in LlmCalls : io'[j].criteria = criteria_list
            /\ \A j \in 1..Len(results) :
                  score_response'.csv.rows[j].cells =
                     [c \in 1..(Len(criteria_list) + 2) |->
                        results[j].score_data.o[score_response'.csv.header[c]]]]_vars

\* Two resumes scored on <<"Python">> while the store already holds <<"SQL">>.
C10_Witness ==
    /\ pc = "loop"
    /\ Len(results) = 2
    /\ criteria_list = <<"Python">>
    /\ extract_response.status = 200
    /\ stored_criteria.list = <<"SQL">>

====
